---- MODULE Spec2Model ----
(***************************************************************************)
(* Model of las-crs (src/src/lib.rs): extraction of the horizontal and     *)
(* optional vertical EPSG code from the CRS VLRs of a LAS header.          *)
(*                                                                         *)
(* Every function of the crate is pure, so each one is an operator that    *)
(* computes what the code computes, and an action applies it to inputs     *)
(* drawn by Init.  Byte buffers are sequences of 0..255, a cursor is a     *)
(* buffer with a 0-based position, Option and Result are records.          *)
(* Integer overflow in Rust depends on the build: with overflow checks     *)
(* (debug profile) it panics, without (release profile) it wraps.  The     *)
(* build profile is the variable overflow_checks, drawn by Init.           *)
(***************************************************************************)
EXTENDS Integers, Sequences, FiniteSets, TLC

VARIABLES
    vlrs,             \* header.all_vlrs(): sequence of [user_id, record_id, data]
    has_wkt_crs,      \* header.has_wkt_crs()
    overflow_checks,  \* build profile: TRUE = overflow panics, FALSE = wraps
    bytes,            \* argument of get_wkt_epsg
    crs_vlrs,         \* argument of get_geotiff_epsg: the four optional slots
    pc,               \* "call" before the function is applied, "done" after
    result,           \* what the applied function returned (or that it panicked)
    log               \* warnings emitted through log!(Level::Warn, ..)

vars == <<vlrs, has_wkt_crs, overflow_checks, bytes, crs_vlrs, pc, result, log>>

----------------------------------------------------------------------------
(* Option, Result and the error kinds of CrsError *)

None == [some |-> FALSE]

Some(x) == [some |-> TRUE, v |-> x]

Ok(x) == [ok |-> TRUE, v |-> x]

NoCrs == [ok |-> FALSE, err |-> "NoCrs"]

UserDefinedCrs == [ok |-> FALSE, err |-> "UserDefinedCrs"]

UnreadableWktCrs == [ok |-> FALSE, err |-> "UnreadableWktCrs"]

UnreadableGeotiffCrs == [ok |-> FALSE, err |-> "UnreadableGeotiffCrs"]

UndefinedDataForGeoTiffKey(id) ==
    [ok |-> FALSE, err |-> "UndefinedDataForGeoTiffKey", key |-> id]

UnimplementedForGeoTiffAsciiAndStringData(p) ==
    [ok |-> FALSE, err |-> "UnimplementedForGeoTiffAsciiAndStringData", data |-> p]

\* CrsError::Io(std::io::Error): every read past the end is UnexpectedEof
Io == [ok |-> FALSE, err |-> "Io"]

\* not a return value: the call unwound with an arithmetic-overflow panic
Panicked == [ok |-> FALSE, panic |-> "arithmetic overflow"]

NotCalled == [ok |-> FALSE, pending |-> TRUE]

U16Modulus == 65536

----------------------------------------------------------------------------
(* get_wkt_epsg *)

\* 10_u16.pow(power): the wrapped value and whether the true value left u16
RECURSIVE pow10_u16(_)
pow10_u16(power) ==
    IF power = 0 THEN [v |-> 1, ovf |-> FALSE]
    ELSE LET p == pow10_u16(power - 1) IN
         [v |-> (p.v * 10) % U16Modulus,
          ovf |-> p.ovf \/ p.v * 10 >= U16Modulus]

\* epsg_code += 10_u16.pow(power) * (byte - 48) as u16
wkt_accumulate(epsg_code, power, byte) ==
    LET p == pow10_u16(power)
        m == p.v * (byte - 48)
        s == epsg_code + (m % U16Modulus)
    IN [v |-> s % U16Modulus,
        ovf |-> p.ovf \/ m >= U16Modulus \/ s >= U16Modulus]

is_ascii_digit(byte) == 48 <= byte /\ byte <= 57

\* i > 7
wkt_bound_exceeded(i) == i > 7

\* the body of `for (i, byte) in bytes.into_iter().rev().enumerate()`
RECURSIVE wkt_scan(_, _, _, _, _, _)
wkt_scan(bs, checks, i, epsg_code, has_code_started, power) ==
    IF i >= Len(bs) THEN Ok(<<epsg_code, None>>)
    ELSE LET byte == bs[Len(bs) - i] IN
         IF is_ascii_digit(byte)
         THEN LET a == wkt_accumulate(epsg_code, power, byte) IN
              IF a.ovf /\ checks THEN Panicked
              ELSE IF wkt_bound_exceeded(i) THEN UnreadableWktCrs
              ELSE wkt_scan(bs, checks, i + 1, a.v, TRUE, power + 1)
         ELSE IF has_code_started THEN Ok(<<epsg_code, None>>)
         ELSE IF wkt_bound_exceeded(i) THEN UnreadableWktCrs
         ELSE wkt_scan(bs, checks, i + 1, epsg_code, has_code_started, power)

get_wkt_epsg(bs, checks) == wkt_scan(bs, checks, 0, 0, FALSE, 0)

----------------------------------------------------------------------------
(* cursor reads (byteorder::ReadBytesExt over std::io::Cursor) *)

\* read_u16 that fills the bytes missing at the end with zeros
read_u16_zero_fill(buf, pos) ==
    [ok |-> TRUE,
     v |-> (IF pos + 1 <= Len(buf) THEN buf[pos + 1] ELSE 0)
           + 256 * (IF pos + 2 <= Len(buf) THEN buf[pos + 2] ELSE 0),
     pos |-> pos + 2]

\* read_u16::<LittleEndian>() at 0-based position pos: read_exact of 2 bytes
read_u16(buf, pos) ==
    IF pos + 2 <= Len(buf)
    THEN [ok |-> TRUE, v |-> buf[pos + 1] + 256 * buf[pos + 2], pos |-> pos + 2]
    ELSE [ok |-> FALSE]

\* f64::from_le_bytes: a double is kept as its bit pattern, most significant
\* byte first, so the little-endian bytes are reversed
f64_from_le(b) == [k \in 1..8 |-> b[9 - k]]

\* `for _ in 0..count { doubles.push(cursor.read_f64::<LittleEndian>()?) }`
RECURSIVE read_f64s(_, _, _, _)
read_f64s(buf, pos, count, doubles) ==
    IF count = 0 THEN Ok(doubles)
    ELSE IF pos + 8 <= Len(buf)
         THEN read_f64s(buf, pos + 8, count - 1,
                        Append(doubles, f64_from_le(SubSeq(buf, pos + 1, pos + 8))))
         ELSE Io

\* `for _ in 0..count { string.push(cursor.read_u8()? as char) }`
RECURSIVE read_chars(_, _, _, _)
read_chars(buf, pos, count, string) ==
    IF count = 0 THEN Ok(string)
    ELSE IF pos + 1 <= Len(buf)
         THEN read_chars(buf, pos + 1, count - 1, Append(string, buf[pos + 1]))
         ELSE Io

----------------------------------------------------------------------------
(* GeoTiffData, GeoTiffKeyEntry::read_from, GeoTiffCRS::read_from *)

U16(v) == [kind |-> "U16", v |-> v]

String(s) == [kind |-> "String", s |-> s]

Doubles(d) == [kind |-> "Doubles", d |-> d]

LOCATION_INLINE == 0

\* double_seek that takes offset for a byte offset
double_seek_bytes(offset) == offset

\* cursor.seek(SeekFrom::Start(offset as u64 * 8_u64)): offset is an index
double_seek(offset) == offset * 8

\* cursor.seek(SeekFrom::Start(offset as u64)): offset is a byte offset
ascii_seek(offset) == offset

\* `match location { .. }` of GeoTiffKeyEntry::read_from
entry_data(id, location, count, offset, double_vlr, ascii_vlr) ==
    IF location = LOCATION_INLINE THEN Ok(U16(offset))
    ELSE IF location = 34736 THEN
        IF ~double_vlr.some THEN UnreadableGeotiffCrs
        ELSE LET r == read_f64s(double_vlr.v, double_seek(offset), count, <<>>) IN
             IF r.ok THEN Ok(Doubles(r.v)) ELSE r
    ELSE IF location = 34737 THEN
        IF ~ascii_vlr.some THEN UnreadableGeotiffCrs
        ELSE LET r == read_chars(ascii_vlr.v, ascii_seek(offset), count, <<>>) IN
             IF r.ok THEN Ok(String(r.v)) ELSE r
    ELSE UndefinedDataForGeoTiffKey(id)

\* GeoTiffKeyEntry::read_from with the main cursor at pos; on success the
\* entry and the cursor's new position
GeoTiffKeyEntry_read_from(main_vlr, pos, double_vlr, ascii_vlr) ==
    LET id == read_u16(main_vlr, pos) IN
    IF ~id.ok THEN Io ELSE
    LET location == read_u16(main_vlr, id.pos) IN
    IF ~location.ok THEN Io ELSE
    LET count == read_u16(main_vlr, location.pos) IN
    IF ~count.ok THEN Io ELSE
    LET offset == read_u16(main_vlr, count.pos) IN
    IF ~offset.ok THEN Io ELSE
    LET data == entry_data(id.v, location.v, count.v, offset.v, double_vlr, ascii_vlr) IN
    IF ~data.ok THEN data
    ELSE [ok |-> TRUE, v |-> [id |-> id.v, data |-> data.v], pos |-> offset.pos]

\* GeoTiffCRS::read_from: `for _ in 0..count { entries.push(read_from(..)?) }`
RECURSIVE GeoTiffCRS_read_from(_, _, _, _, _, _)
GeoTiffCRS_read_from(main_vlr, pos, double_vlr, ascii_vlr, count, entries) ==
    IF count = 0 THEN Ok(entries)
    ELSE LET e == GeoTiffKeyEntry_read_from(main_vlr, pos, double_vlr, ascii_vlr) IN
         IF ~e.ok THEN e
         ELSE GeoTiffCRS_read_from(main_vlr, e.pos, double_vlr, ascii_vlr,
                                   count - 1, Append(entries, e.v))

----------------------------------------------------------------------------
(* get_geotiff_epsg *)

\* model_type without the arm for 32767 (user defined)
model_type_no_user_defined(data) ==
    IF data.kind = "U16" /\ data.v = 0 THEN UnreadableGeotiffCrs
    ELSE IF data.kind = "U16" /\ data.v \in {1, 2, 3} THEN Ok(TRUE)
    ELSE UnimplementedForGeoTiffAsciiAndStringData(data)

\* `1024 => match entry.data { .. }`: TRUE to go on, or the error returned
model_type(data) ==
    IF data.kind = "U16" /\ data.v = 0 THEN UnreadableGeotiffCrs
    ELSE IF data.kind = "U16" /\ data.v \in {1, 2, 3} THEN Ok(TRUE)
    ELSE IF data.kind = "U16" /\ data.v = 32767 THEN UserDefinedCrs
    ELSE UnimplementedForGeoTiffAsciiAndStringData(data)

\* interpret_entry in which a horizontal code already stored is kept
interpret_entry_keep_first(out, entry) ==
    IF entry.id = 1024 THEN
        LET m == model_type(entry.data) IN IF m.ok THEN Ok(out) ELSE m
    ELSE IF entry.id = 3072 \/ entry.id = 2048 THEN
        IF entry.data.kind = "U16"
        THEN Ok(<<IF out[1].some THEN out[1] ELSE Some(entry.data.v), out[2]>>)
        ELSE UndefinedDataForGeoTiffKey(entry.id)
    ELSE IF entry.id = 4096 THEN
        IF entry.data.kind = "U16" THEN Ok(<<out[1], Some(entry.data.v)>>)
        ELSE UndefinedDataForGeoTiffKey(4096)
    ELSE Ok(out)

\* one iteration of `for entry in crs_data.entries { match entry.id { .. } }`:
\* the new `out`, or the error returned
interpret_entry(out, entry) ==
    IF entry.id = 1024 THEN
        LET m == model_type(entry.data) IN IF m.ok THEN Ok(out) ELSE m
    ELSE IF entry.id = 3072 THEN
        IF entry.data.kind = "U16" THEN Ok(<<Some(entry.data.v), out[2]>>)
        ELSE UndefinedDataForGeoTiffKey(3072)
    ELSE IF entry.id = 2048 THEN
        IF entry.data.kind = "U16" THEN Ok(<<Some(entry.data.v), out[2]>>)
        ELSE UndefinedDataForGeoTiffKey(2048)
    ELSE IF entry.id = 4096 THEN
        IF entry.data.kind = "U16" THEN Ok(<<out[1], Some(entry.data.v)>>)
        ELSE UndefinedDataForGeoTiffKey(4096)
    ELSE Ok(out)

RECURSIVE interpret_entries(_, _, _)
interpret_entries(entries, k, out) ==
    IF k > Len(entries)
    THEN IF ~out[1].some THEN UnreadableGeotiffCrs ELSE Ok(<<out[1].v, out[2]>>)
    ELSE LET o == interpret_entry(out, entries[k]) IN
         IF ~o.ok THEN o ELSE interpret_entries(entries, k + 1, o.v)

\* the decode of the directory, then its interpretation; slots is the 4-slot
\* array with slot 1 (here slots[2]) present
get_geotiff_epsg(slots) ==
    LET main_vlr == slots[2].v
        double_vlr == slots[3]
        ascii_vlr == slots[4]
        version == read_u16(main_vlr, 0)
    IN
    IF ~version.ok THEN Io ELSE
    LET major == read_u16(main_vlr, version.pos) IN
    IF ~major.ok THEN Io ELSE
    LET minor == read_u16(main_vlr, major.pos) IN
    IF ~minor.ok THEN Io ELSE
    LET num_keys == read_u16(main_vlr, minor.pos) IN
    IF ~num_keys.ok THEN Io ELSE
    LET crs_data == GeoTiffCRS_read_from(main_vlr, num_keys.pos, double_vlr,
                                         ascii_vlr, num_keys.v, <<>>) IN
    IF ~crs_data.ok THEN crs_data
    ELSE interpret_entries(crs_data.v, 1, <<None, None>>)

----------------------------------------------------------------------------
(* parse_las_crs *)

\* char::to_lowercase on ASCII: 'A'..'Z' map to 'a'..'z', the rest is kept
char_to_lowercase(c) == IF 65 <= c /\ c <= 90 THEN c + 32 ELSE c

\* str::to_lowercase; a string is the sequence of its code points
to_lowercase(s) == [k \in 1..Len(s) |-> char_to_lowercase(s[k])]

\* "lasf_projection"
LASF_PROJECTION == <<108, 97, 115, 102, 95, 112, 114, 111, 106, 101, 99, 116, 105, 111, 110>>

CrsRecordIds == {2112, 34735, 34736, 34737}

\* is_crs_vlr without the to_lowercase: the user id compared as written
is_crs_vlr_case_sensitive(vlr) ==
    vlr.user_id = LASF_PROJECTION /\ vlr.record_id \in CrsRecordIds

\* `if let ("lasf_projection", 2112 | 34735 | 34736 | 34737) = (..)`
is_crs_vlr(vlr) ==
    to_lowercase(vlr.user_id) = LASF_PROJECTION /\ vlr.record_id \in CrsRecordIds

\* `let pos = match vlr.record_id { .. }`, as an index of a 1-based tuple
slot_of(record_id) ==
    IF record_id = 2112 THEN 1
    ELSE IF record_id = 34735 THEN 2
    ELSE IF record_id = 34736 THEN 3
    ELSE 4

\* store_slot that keeps the first record of an id instead of the last
store_slot_keep_first(slots, vlr) ==
    IF slots[slot_of(vlr.record_id)].some THEN slots
    ELSE [slots EXCEPT ![slot_of(vlr.record_id)] = Some(vlr.data)]

\* crs_vlrs[pos] = Some(vlr.data.clone())
store_slot(slots, vlr) == [slots EXCEPT ![slot_of(vlr.record_id)] = Some(vlr.data)]

\* `for vlr in header.all_vlrs() { .. }` from the k-th record on
RECURSIVE select_crs_vlrs(_, _, _)
select_crs_vlrs(all_vlrs, k, slots) ==
    IF k > Len(all_vlrs) THEN slots
    ELSE select_crs_vlrs(all_vlrs, k + 1,
                         IF is_crs_vlr(all_vlrs[k]) THEN store_slot(slots, all_vlrs[k])
                         ELSE slots)

WktFoundWarning == "WKT CRS VLR found, but header says it does not exists"

NoWktWarning == "No WKT CRS VLR found but header says it exists"

\* resolve that trusts the header flag: the WKT slot is used only when the
\* header declares a WKT CRS
resolve_trusting_flag(slots, flag, checks) ==
    IF slots[1].some /\ flag
    THEN [result |-> get_wkt_epsg(slots[1].v, checks), log |-> <<>>]
    ELSE IF slots[2].some
    THEN [result |-> get_geotiff_epsg(slots),
          log |-> IF flag THEN <<NoWktWarning>> ELSE <<>>]
    ELSE [result |-> NoCrs,
          log |-> IF flag THEN <<NoWktWarning>> ELSE <<>>]

\* the if / else if / else of parse_las_crs on the selected slots: what is
\* returned and what is logged
resolve(slots, flag, checks) ==
    IF slots[1].some
    THEN [result |-> get_wkt_epsg(slots[1].v, checks),
          log |-> IF ~flag THEN <<WktFoundWarning>> ELSE <<>>]
    ELSE IF slots[2].some
    THEN [result |-> get_geotiff_epsg(slots),
          log |-> IF flag THEN <<NoWktWarning>> ELSE <<>>]
    ELSE [result |-> NoCrs,
          log |-> IF flag THEN <<NoWktWarning>> ELSE <<>>]

parse_las_crs(all_vlrs, flag, checks) ==
    resolve(select_crs_vlrs(all_vlrs, 1, <<None, None, None, None>>), flag, checks)

----------------------------------------------------------------------------
(* bounded inputs *)

MaxWktLen == 10

MaxKeys == 3

MaxCount == 2

MaxOffset == 3

MaxDoubleLen == 24

MaxAsciiLen == 3

MaxVlrs == 3

\* '1', '9' and ']'
WktAlphabet == {49, 57, 93}

SeqsUpTo(S, n) == UNION {[1..k -> S] : k \in 0..n}

NoSlots == <<None, None, None, None>>

\* the on-disk layout the decoder reads: little-endian u16, 8-byte entries
\* <<id, location, count, offset>> after the 8-byte header (1, 1, 0, num_keys)
u16_le(v) == <<v % 256, v \div 256>>

entry_le(e) == u16_le(e[1]) \o u16_le(e[2]) \o u16_le(e[3]) \o u16_le(e[4])

RECURSIVE entries_le(_)
entries_le(es) == IF es = <<>> THEN <<>> ELSE entry_le(Head(es)) \o entries_le(Tail(es))

directory_le(num_keys, es) ==
    u16_le(1) \o u16_le(1) \o u16_le(0) \o u16_le(num_keys) \o entries_le(es)

\* buf without its last n bytes
Truncated(buf, n) == SubSeq(buf, 1, IF Len(buf) > n THEN Len(buf) - n ELSE 0)

\* 12.5 = 0x4029000000000000 and pi = 0x400921FB54442D18, as bit patterns
F64_12_5 == <<64, 41, 0, 0, 0, 0, 0, 0>>

F64_PI == <<64, 9, 33, 251, 84, 68, 45, 24>>

f64_le(d) == [k \in 1..8 |-> d[9 - k]]

\* the first len bytes of the doubles 12.5, pi, 12.5, pi, .. in little-endian
DoubleBuffer(len) ==
    [k \in 1..len |->
        f64_le(IF ((k - 1) \div 8) % 2 = 0 THEN F64_12_5 ELSE F64_PI)[((k - 1) % 8) + 1]]

\* the first len bytes of "WGS 84|WGS 84|.."
AsciiBuffer(len) ==
    [k \in 1..len |-> <<87, 71, 83, 32, 56, 52, 124>>[((k - 1) % 7) + 1]]

\* directory entries <<id, location, count, offset>> of the decoder's cases
GeoEntries ==
    { <<1024, 0, 1, 0>>, <<1024, 0, 1, 2>>, <<1024, 0, 1, 7>>, <<1024, 0, 1, 32767>>,
      <<1024, 34737, 3, 0>>,
      <<2048, 0, 1, 4326>>, <<2048, 34736, 1, 0>>,
      <<3072, 0, 1, 25832>>,
      <<4096, 0, 1, 5773>>, <<4096, 0, 1, 5703>>,
      <<1025, 9, 1, 0>> }

\* the auxiliary slots: <<doubles, ascii>>
GeoAux == { <<None, None>>, <<Some(DoubleBuffer(8)), Some(AsciiBuffer(3))>> }

\* bytes missing at the end of the directory payload
GeoCuts == {0, 3}

EntryIds == {1024, 2048, 1025}

EntryLocations == {0, 34736, 34737, 34735, 1}

\* "lasf_projection" in the case writers use, and another namespace
LASF_Projection == <<76, 65, 83, 70, 95, 80, 114, 111, 106, 101, 99, 116, 105, 111, 110>>

LASF_Spec == <<76, 65, 83, 70, 95, 83, 112, 101, 99>>

\* ..,"4326"]] and ..,"99999"]]
WktA == <<44, 34, 52, 51, 50, 54, 34, 93, 93>>

WktB == <<44, 34, 57, 57, 57, 57, 57, 34, 93, 93>>

\* model type 2, geographic 4326, a citation in the ASCII record
DirA == directory_le(3, << <<1024, 0, 1, 2>>, <<2048, 0, 1, 4326>>, <<1026, 34737, 3, 0>> >>)

\* projected 25832 with vertical 5773, its second entry cut short
DirB == directory_le(2, << <<3072, 0, 1, 25832>>, <<4096, 0, 1, 5773>> >>)

DirBShort == Truncated(DirB, 3)

Vlr(user_id, record_id, data) ==
    [user_id |-> user_id, record_id |-> record_id, data |-> data]

HeaderVlrs ==
    { Vlr(u, 2112, WktA) : u \in {LASF_PROJECTION, LASF_Projection, LASF_Spec} }
    \cup { Vlr(LASF_Projection, 34735, DirA) }
    \cup { Vlr(LASF_PROJECTION, 2112, WktB),
           Vlr(LASF_PROJECTION, 34735, DirB),
           Vlr(LASF_PROJECTION, 34735, DirBShort),
           Vlr(LASF_PROJECTION, 34736, DoubleBuffer(8)),
           Vlr(LASF_Projection, 34737, AsciiBuffer(3)),
           Vlr(LASF_PROJECTION, 7, WktA) }

----------------------------------------------------------------------------
(* parse_las_crs applied to every header over HeaderVlrs *)

Init ==
    /\ vlrs \in SeqsUpTo(HeaderVlrs, MaxVlrs)
    /\ has_wkt_crs \in BOOLEAN
    /\ overflow_checks \in BOOLEAN
    /\ bytes = <<>>
    /\ crs_vlrs = NoSlots
    /\ pc = "call"
    /\ result = NotCalled
    /\ log = <<>>

ParseLasCrs ==
    /\ pc = "call"
    /\ LET r == parse_las_crs(vlrs, has_wkt_crs, overflow_checks) IN
           /\ result' = r.result
           /\ log' = r.log
    /\ pc' = "done"
    /\ UNCHANGED <<vlrs, has_wkt_crs, overflow_checks, bytes, crs_vlrs>>

Next == ParseLasCrs

Spec == Init /\ [][Next]_vars

----------------------------------------------------------------------------
(* get_wkt_epsg applied to every payload over WktAlphabet *)

InitWkt ==
    /\ bytes \in SeqsUpTo(WktAlphabet, MaxWktLen)
    /\ overflow_checks \in BOOLEAN
    /\ vlrs = <<>>
    /\ has_wkt_crs = FALSE
    /\ crs_vlrs = NoSlots
    /\ pc = "call"
    /\ result = NotCalled
    /\ log = <<>>

GetWktEpsg ==
    /\ pc = "call"
    /\ result' = get_wkt_epsg(bytes, overflow_checks)
    /\ pc' = "done"
    /\ UNCHANGED <<vlrs, has_wkt_crs, overflow_checks, bytes, crs_vlrs, log>>

NextWkt == GetWktEpsg

SpecWkt == InitWkt /\ [][NextWkt]_vars

----------------------------------------------------------------------------
(* get_geotiff_epsg applied to directories built from GeoEntries: the entries
   es present, as many declared, one more or one fewer, and the last cut bytes
   missing.  The function has no arithmetic that can overflow. *)

InitGeo ==
    /\ \E es \in SeqsUpTo(GeoEntries, MaxKeys), cut \in GeoCuts, aux \in GeoAux :
         \E num_keys \in {Len(es) - 1, Len(es), Len(es) + 1} \cap Nat :
           crs_vlrs = <<None, Some(Truncated(directory_le(num_keys, es), cut)),
                        aux[1], aux[2]>>
    /\ overflow_checks = FALSE
    /\ vlrs = <<>>
    /\ has_wkt_crs = FALSE
    /\ bytes = <<>>
    /\ pc = "call"
    /\ result = NotCalled
    /\ log = <<>>

GetGeotiffEpsg ==
    /\ pc = "call"
    /\ result' = get_geotiff_epsg(crs_vlrs)
    /\ pc' = "done"
    /\ UNCHANGED <<vlrs, has_wkt_crs, overflow_checks, bytes, crs_vlrs, log>>

NextGeo == GetGeotiffEpsg

SpecGeo == InitGeo /\ [][NextGeo]_vars

----------------------------------------------------------------------------
(* GeoTiffKeyEntry::read_from applied to the first entry of a directory
   (cursor behind the 8-byte header), for every entry and auxiliary buffer *)

InitEntry ==
    /\ \E id \in EntryIds, location \in EntryLocations, count \in 0..MaxCount,
          offset \in 0..MaxOffset,
          d \in {None} \cup {Some(DoubleBuffer(n)) : n \in 0..MaxDoubleLen},
          a \in {None} \cup {Some(AsciiBuffer(n)) : n \in 0..MaxAsciiLen} :
           crs_vlrs = <<None, Some(directory_le(1, << <<id, location, count, offset>> >>)),
                        d, a>>
    /\ overflow_checks = FALSE
    /\ vlrs = <<>>
    /\ has_wkt_crs = FALSE
    /\ bytes = <<>>
    /\ pc = "call"
    /\ result = NotCalled
    /\ log = <<>>

ReadEntry ==
    /\ pc = "call"
    /\ result' = GeoTiffKeyEntry_read_from(crs_vlrs[2].v, 8, crs_vlrs[3], crs_vlrs[4])
    /\ pc' = "done"
    /\ UNCHANGED <<vlrs, has_wkt_crs, overflow_checks, bytes, crs_vlrs, log>>

NextEntry == ReadEntry

SpecEntry == InitEntry /\ [][NextEntry]_vars

----------------------------------------------------------------------------
(* what the claims speak of, stated without the decoder's operators *)

Max(S) == CHOOSE x \in S : \A y \in S : y <= x

Min(S) == CHOOSE x \in S : \A y \in S : x <= y

fold_upper(c) == IF 97 <= c /\ c <= 122 THEN c - 32 ELSE c

\* a and b are equal up to ASCII case
EqIgnoreCase(a, b) ==
    Len(a) = Len(b) /\ \A k \in 1..Len(a) : fold_upper(a[k]) = fold_upper(b[k])

\* the positions in the header of the projection records with this record id
ProjectionRecords(record_id) ==
    {k \in 1..Len(vlrs) :
        EqIgnoreCase(vlrs[k].user_id, LASF_PROJECTION) /\ vlrs[k].record_id = record_id}

----------------------------------------------------------------------------
(* claims about parse_las_crs, under Spec *)

\* C1: when the header holds a projection record with id 2112, the outcome of
\* parse_las_crs is the outcome of get_wkt_epsg on the payload of the last
\* such record, whatever GeoTIFF records the header holds.
C1_WktPriority ==
    (pc = "done" /\ ProjectionRecords(2112) # {}) =>
        result = get_wkt_epsg(vlrs[Max(ProjectionRecords(2112))].data, overflow_checks)

\* C1's case: two WKT records with different payloads (the first one
\* overflowing, the last one 4326) beside a truncated GeoTIFF directory
C1_Witness ==
    /\ pc = "done"
    /\ Cardinality(ProjectionRecords(2112)) = 2
    /\ vlrs[Min(ProjectionRecords(2112))].data = WktB
    /\ vlrs[Max(ProjectionRecords(2112))].data = WktA
    /\ \E k \in ProjectionRecords(34735) : vlrs[k].data = DirBShort
    /\ result = Ok(<<4326, None>>)

\* C2: parse_las_crs returns NoCrs exactly when the header holds no
\* projection record (user id compared without case) with id 2112 or 34735.
C2_NoCrsIff ==
    pc = "done" =>
        (result = NoCrs <=> ProjectionRecords(2112) \cup ProjectionRecords(34735) = {})

\* C2's case: only an auxiliary record and a WKT record of another namespace
C2_Witness ==
    /\ pc = "done"
    /\ result = NoCrs
    /\ ProjectionRecords(34736) # {}
    /\ \E k \in 1..Len(vlrs) : vlrs[k].record_id = 2112 /\ vlrs[k].user_id = LASF_Spec

\* C8: the run with the header flag inverted has the same outcome as the run
\* made, and the flag decides only whether the one warning is logged: it is
\* logged exactly when the flag disagrees with the presence of a WKT record.
C8_FlagOnlyLogs ==
    pc = "done" =>
        /\ result = parse_las_crs(vlrs, ~has_wkt_crs, overflow_checks).result
        /\ Len(log) <= 1
        /\ (log # <<>>) <=> (has_wkt_crs # (ProjectionRecords(2112) # {}))

\* C8's case: a GeoTIFF header whose flag wrongly declares a WKT CRS is
\* resolved, with the warning logged
C8_Witness ==
    /\ pc = "done"
    /\ has_wkt_crs
    /\ log = <<NoWktWarning>>
    /\ result = Ok(<<25832, Some(5773)>>)

----------------------------------------------------------------------------
(* the directory of the state, read off its bytes *)

Main == crs_vlrs[2].v

HeaderPresent == Len(Main) >= 8

\* N: the fourth little-endian u16 of the header
DeclaredKeys == Main[7] + 256 * Main[8]

\* the entries that lie whole inside the payload
WholeEntries == (Len(Main) - 8) \div 8

DirTruncated == ~HeaderPresent \/ Len(Main) < 8 + 8 * DeclaredKeys

\* the decode of the k-th entry alone, at its place 8 + 8 * (k - 1)
EntryAt(k) == GeoTiffKeyEntry_read_from(Main, 8 * k, crs_vlrs[3], crs_vlrs[4])

\* the declared entries whose decode fails (a missing entry fails with Io)
FailingEntries == {k \in 1..DeclaredKeys : ~EntryAt(k).ok}

AllDecode == HeaderPresent /\ FailingEntries = {}

IsNumeric(e) == e.data.kind = "U16"

AcceptedModelType(e) == e.id = 1024 /\ IsNumeric(e) /\ e.data.v \in {1, 2, 3}

\* the entries the interpretation rejects
InterpFails(e) ==
    \/ e.id = 1024 /\ ~AcceptedModelType(e)
    \/ e.id \in {2048, 3072, 4096} /\ ~IsNumeric(e)

RejectedEntries == {k \in 1..DeclaredKeys : InterpFails(EntryAt(k).v)}

EntriesWithId(ids) == {k \in 1..DeclaredKeys : EntryAt(k).v.id \in ids}

----------------------------------------------------------------------------
(* claims about get_geotiff_epsg, under SpecGeo *)

\* C3: a directory that decodes fully and holds no entry with id 1024 is
\* rejected with UnreadableGeotiffCrs, even with a numeric 2048 or 3072 entry.
C3_ModelTypeRequired ==
    (pc = "done" /\ AllDecode /\ EntriesWithId({1024}) = {}) =>
        result = UnreadableGeotiffCrs

\* C4 as stated: a directory shorter than its header, or than 8 + 8 * N
\* bytes, fails with Io whatever the entries present hold.
C4_TruncatedIsIo ==
    (pc = "done" /\ DirTruncated) => result = Io

\* C4 as amended: a truncated directory never resolves; it fails with Io
\* unless one of the entries that lie whole inside the payload fails to
\* decode, and then with the decode error of the first such entry.
C4_TruncatedFails ==
    (pc = "done" /\ DirTruncated) =>
        LET failing == IF HeaderPresent
                       THEN {k \in FailingEntries : k <= WholeEntries}
                       ELSE {}
        IN /\ ~result.ok
           /\ result = IF failing = {} THEN Io ELSE EntryAt(Min(failing))

\* C4's case: the second of two declared entries is cut short behind a
\* first entry that decodes, and the outcome is Io
C4_Witness ==
    /\ pc = "done"
    /\ HeaderPresent /\ DeclaredKeys = 2 /\ WholeEntries = 1 /\ Len(Main) > 16
    /\ EntryAt(1).ok
    /\ result = Io

\* C6: an Ok outcome carries the numeric value of the last entry with id
\* 2048 or 3072 and, as vertical code, that of the last entry with id 4096
\* if there is one; a directory that decodes, has no rejected entry and no
\* 2048/3072 entry fails with UnreadableGeotiffCrs.
C6_LastCodeWins ==
    pc = "done" =>
        /\ result.ok =>
              /\ AllDecode
              /\ EntriesWithId({2048, 3072}) # {}
              /\ LET h == EntryAt(Max(EntriesWithId({2048, 3072}))).v IN
                     IsNumeric(h) /\ result.v[1] = h.data.v
              /\ IF EntriesWithId({4096}) = {} THEN result.v[2] = None
                 ELSE LET v == EntryAt(Max(EntriesWithId({4096}))).v IN
                          IsNumeric(v) /\ result.v[2] = Some(v.data.v)
        /\ (AllDecode /\ RejectedEntries = {} /\ EntriesWithId({2048, 3072}) = {}) =>
              result = UnreadableGeotiffCrs

\* C6's case: 2048 overwritten by a later 3072, with a vertical code
C6_Witness ==
    /\ pc = "done"
    /\ AllDecode
    /\ EntriesWithId({2048}) # {} /\ EntriesWithId({3072}) # {}
    /\ Max(EntriesWithId({2048})) < Max(EntriesWithId({3072}))
    /\ result = Ok(<<25832, Some(5773)>>)

\* the directory without its accepted model-type entries
RECURSIVE KeptEntryBytes(_)
KeptEntryBytes(k) ==
    IF k = 0 THEN <<>>
    ELSE KeptEntryBytes(k - 1)
         \o (IF AcceptedModelType(EntryAt(k).v) THEN <<>>
             ELSE SubSeq(Main, 8 * k + 1, 8 * k + 8))

WithoutAcceptedModelType ==
    LET kept == KeptEntryBytes(DeclaredKeys) IN
    SubSeq(Main, 1, 6) \o u16_le(Len(kept) \div 8) \o kept

\* C7: a decode failure of any entry is the outcome, before every
\* interpretation error; when all entries decode and the first rejected
\* entry is a model-type entry, the outcome is UnreadableGeotiffCrs for
\* numeric 0, UserDefinedCrs for numeric 32767 and
\* UnimplementedForGeoTiffAsciiAndStringData, with the value, otherwise;
\* model-type entries with numeric 1, 2 or 3 change nothing: the directory
\* without them has the same outcome.
C7_ModelTypeAndPrecedence ==
    (pc = "done" /\ HeaderPresent) =>
        /\ FailingEntries # {} => result = EntryAt(Min(FailingEntries))
        /\ (AllDecode /\ RejectedEntries # {}) =>
              LET e == EntryAt(Min(RejectedEntries)).v IN
              e.id = 1024 =>
                  result = IF IsNumeric(e) /\ e.data.v = 0 THEN UnreadableGeotiffCrs
                           ELSE IF IsNumeric(e) /\ e.data.v = 32767 THEN UserDefinedCrs
                           ELSE UnimplementedForGeoTiffAsciiAndStringData(e.data)
        /\ (AllDecode /\ \E k \in 1..DeclaredKeys : AcceptedModelType(EntryAt(k).v)) =>
              result = get_geotiff_epsg(<<None, Some(WithoutAcceptedModelType),
                                          crs_vlrs[3], crs_vlrs[4]>>)

\* C7's case: a user-defined model type in front of an entry whose decode
\* fails: the decode failure is the outcome
C7_Witness ==
    /\ pc = "done"
    /\ HeaderPresent /\ DeclaredKeys = 3 /\ WholeEntries = 3
    /\ EntryAt(1).ok /\ AcceptedModelType(EntryAt(1).v)
    /\ EntryAt(2).ok /\ EntryAt(2).v.id = 1024 /\ EntryAt(2).v.data = U16(32767)
    /\ ~EntryAt(3).ok
    /\ result = UndefinedDataForGeoTiffKey(1025)

----------------------------------------------------------------------------
(* claims about GeoTiffKeyEntry::read_from, under SpecEntry *)

\* the four fields of the entry behind the header, read off the bytes
RawId == Main[9] + 256 * Main[10]

RawLocation == Main[11] + 256 * Main[12]

RawCount == Main[13] + 256 * Main[14]

RawOffset == Main[15] + 256 * Main[16]

\* the doubles and characters the auxiliary buffers are made of
DoubleNo(n) == IF n % 2 = 0 THEN F64_12_5 ELSE F64_PI

CharNo(n) == <<87, 71, 83, 32, 56, 52, 124>>[(n % 7) + 1]

\* C10: location 0 gives Numeric(offset) whatever count is; 34736 and 34737
\* without their buffer give UnreadableGeotiffCrs; with the buffer, 34736
\* gives the count doubles at bytes [8*offset, 8*offset + 8*count) and 34737
\* the count characters at bytes [offset, offset + count), exactly when the
\* range lies inside the buffer or count is 0, and Io otherwise; any other
\* location gives UndefinedDataForGeoTiffKey(id).
C10_EntryValue ==
    pc = "done" =>
        LET d == crs_vlrs[3]
            a == crs_vlrs[4]
        IN
        /\ RawLocation = 0 =>
              result.ok /\ result.v = [id |-> RawId, data |-> U16(RawOffset)]
        /\ (RawLocation = 34736 /\ ~d.some) => result = UnreadableGeotiffCrs
        /\ (RawLocation = 34737 /\ ~a.some) => result = UnreadableGeotiffCrs
        /\ (RawLocation = 34736 /\ d.some) =>
              IF RawCount = 0 \/ 8 * RawOffset + 8 * RawCount <= Len(d.v)
              THEN /\ result.ok
                   /\ result.v.id = RawId
                   /\ result.v.data.kind = "Doubles"
                   /\ Len(result.v.data.d) = RawCount
                   /\ \A j \in 1..RawCount :
                          result.v.data.d[j] = DoubleNo(RawOffset + j - 1)
              ELSE result = Io
        /\ (RawLocation = 34737 /\ a.some) =>
              IF RawCount = 0 \/ RawOffset + RawCount <= Len(a.v)
              THEN /\ result.ok
                   /\ result.v.id = RawId
                   /\ result.v.data.kind = "String"
                   /\ Len(result.v.data.s) = RawCount
                   /\ \A j \in 1..RawCount :
                          result.v.data.s[j] = CharNo(RawOffset + j - 1)
              ELSE result = Io
        /\ RawLocation \notin {0, 34736, 34737} =>
              result = UndefinedDataForGeoTiffKey(RawId)

\* C10's case: the second and third double of a 24-byte buffer are read
C10_Witness ==
    /\ pc = "done"
    /\ RawLocation = 34736 /\ RawCount = 2 /\ RawOffset = 1
    /\ crs_vlrs[3].some /\ Len(crs_vlrs[3].v) = 24
    /\ result.ok
    /\ result.v.data = Doubles(<<F64_PI, F64_12_5>>)

----------------------------------------------------------------------------
(* claims about get_wkt_epsg, under SpecWkt *)

\* the byte at reversed index i (0 is the last byte)
ByteAt(i) == bytes[Len(bytes) - i]

DigitIndices == {i \in 0..(Len(bytes) - 1) : ByteAt(i) \in 48..57}

\* the reversed indices of the run of digits closest to the end
TrailingRun ==
    IF DigitIndices = {} THEN {}
    ELSE {i \in DigitIndices : \A j \in Min(DigitIndices)..i : j \in DigitIndices}

\* the decimal integer the run spells (its last digit is the lowest)
RECURSIVE Spelled(_, _)
Spelled(lo, hi) ==
    IF hi < lo THEN 0 ELSE (ByteAt(lo) - 48) + 10 * Spelled(lo + 1, hi)

SpelledCode ==
    IF TrailingRun = {} THEN 0 ELSE Spelled(Min(TrailingRun), Max(TrailingRun))

\* C5: an Ok outcome of get_wkt_epsg is (c, None) with c the decimal
\* integer spelled by the run of digits closest to the end of the payload
\* (0 without a digit), and the accumulation never leaves the u16 range.
C5_SpelledCode ==
    pc = "done" =>
        /\ result # Panicked
        /\ result.ok =>
              /\ Cardinality(TrailingRun) <= 9
              /\ result.v = <<SpelledCode, None>>

\* the scan stops at index j: a non-digit behind at least one digit
StopsAt(j) == j < Len(bytes) /\ j \notin DigitIndices /\ \E k \in DigitIndices : k < j

\* the last n bytes of the payload
LastBytes(n) ==
    IF Len(bytes) <= n THEN bytes ELSE SubSeq(bytes, Len(bytes) - n + 1, Len(bytes))

\* C9: get_wkt_epsg fails with UnreadableWktCrs exactly when the payload has
\* a byte at reversed index 8 and the scan has not stopped at an index up to
\* 8; a payload of at most 8 bytes never fails; nothing behind index 8 is
\* inspected, so the outcome is that of the last 9 bytes alone.
C9_ScanBound ==
    pc = "done" =>
        /\ (result = UnreadableWktCrs)
              <=> (Len(bytes) >= 9 /\ ~\E j \in 0..8 : StopsAt(j))
        /\ Len(bytes) <= 8 => result.ok
        /\ result = get_wkt_epsg(LastBytes(9), overflow_checks)

\* C9 without the overflow of C5: the same statement for builds that wrap
C9_ScanBoundWrapping ==
    ~overflow_checks => C9_ScanBound

====
